---- MODULE Spec2Model ----
(***************************************************************************)
(* Model of src/lib.rs (DeclarativeConfig): the chunk splitter and the     *)
(* normalizer build_updated_configs, and the indexer                        *)
(* get_declarativeconfig_map with read_operator_catalog.                    *)
(*                                                                         *)
(* Texts (file contents, paths, names) are sequences of tokens.  A token   *)
(* is either one character ("{", "}", "/", "=", "\n", "a") or an atomic     *)
(* stand-in for a longer literal that is never cut by the code (a JSON     *)
(* member, a path segment): the code only searches texts for the literals  *)
(* "{", "}\n{", "}{", "/configs/" and "catalog.json", all of which are     *)
(* token sequences here.                                                   *)
(***************************************************************************)
EXTENDS Integers, Sequences, FiniteSets, TLC

VARIABLES
    status,     \* "running" | "ok" (returned Ok / the map) | "err" (returned Err) | "panic"
    last,       \* what the latest step of the operation did
    visited,    \* paths the directory walk has already yielded
    file_name,  \* file_name of the entry being processed
    s,          \* contents read from the file
    chunks,     \* the pieces of s the chunk loop iterates over
    pos,        \* position of the next chunk in the loop (0-based)
    update,     \* the variable `update`: the text handed to the decoder
    tree,       \* the file system below the walk: path -> contents or DirMark
    dc_list,    \* the indexer's map: key -> record
    base_dir,   \* the indexer's base_dir argument
    objs,       \* the object texts a blob was concatenated from
    out         \* the reconstructed texts of a whole chunk loop, in order

vars == <<status, last, visited, file_name, s, chunks, pos, update, tree,
          dc_list, base_dir, objs, out>>

----------------------------------------------------------------------------
(* Bounds *)

MaxObjLen == 3      \* longest raw object text of the splitter specification
MaxObjs == 3        \* most objects concatenated into one blob (splitter)
MaxChunks == 2      \* most objects in one catalog file (normalizer)

----------------------------------------------------------------------------
(* Texts *)

NL == "\n"

\* "}\n{" of s.split("}\n{")
Boundary == <<"}", NL, "{">>

\* "}{" of s.split("}{")
Boundary2 == <<"}", "{">>

\* pat occurs in t at index i (1-based)
MatchAt(t, pat, i) ==
    /\ i >= 1
    /\ i + Len(pat) - 1 <= Len(t)
    /\ \A k \in 1..Len(pat) : t[i + k - 1] = pat[k]

\* str::contains
Contains(t, pat) == \E i \in 1..(Len(t) + 1) : MatchAt(t, pat, i)

\* index of the leftmost occurrence of pat in t at or after i, 0 if none
FindFrom(t, pat, i) ==
    IF \E j \in i..(Len(t) + 1) : MatchAt(t, pat, j)
    THEN CHOOSE j \in i..(Len(t) + 1) :
            /\ MatchAt(t, pat, j)
            /\ \A k \in i..(j - 1) : ~MatchAt(t, pat, k)
    ELSE 0

RECURSIVE SplitFrom(_, _, _)
\* str::split on a non-empty pattern, from index i on: leftmost
\* non-overlapping occurrences; the text after the last one is the last piece
SplitFrom(t, pat, i) ==
    LET j == FindFrom(t, pat, i)
    IN IF j = 0
       THEN <<SubSeq(t, i, Len(t))>>
       ELSE <<SubSeq(t, i, j - 1)>> \o SplitFrom(t, pat, j + Len(pat))

Split(t, pat) == SplitFrom(t, pat, 1)

----------------------------------------------------------------------------
(* The chunk loop of build_updated_configs *)

\* lines 198-202: split on "}\n{", fall back to "}{" when that gives one piece
Chunks(t) ==
    LET c == Split(t, Boundary)
    IN IF Len(c) <= 1 THEN Split(t, Boundary2) ELSE c

\* the loop without its third if statement ("everything in between")
ReconstructNoInterior(p, item, l, prev) ==
    LET u1 == IF p = 0 THEN item \o <<"}">> ELSE prev
        u2 == IF p = l - 1 THEN <<"{">> \o item ELSE u1
    IN u2

\* lines 208-218: the three if statements, run in order on the variable
\* `update` (prev is its value when the iteration starts); p is 0-based
Reconstruct(p, item, l, prev) ==
    LET u1 == IF p = 0 THEN item \o <<"}">> ELSE prev
        u2 == IF p = l - 1 THEN <<"{">> \o item ELSE u1
        u3 == IF p > 0 /\ p <= l - 2 THEN <<"{">> \o item \o <<"}">> ELSE u2
    IN u3

RECURSIVE ReconstructedFrom(_, _, _)
\* the values `update` takes over the loop, from 0-based position p on
ReconstructedFrom(c, p, prev) ==
    IF p >= Len(c) THEN <<>>
    ELSE LET u == Reconstruct(p, c[p + 1], Len(c), prev)
         IN <<u>> \o ReconstructedFrom(c, p + 1, u)

\* lines 204-205: update starts as "" and the loop enumerates the chunks
Reconstructed(t) == ReconstructedFrom(Chunks(t), 0, <<>>)

----------------------------------------------------------------------------
(* Splitter specification: the chunk loop applied to bounded blobs *)

Alphabet == {"{", "}", NL, "a"}

\* all texts over Alphabet of length n
TextsOfLen(n) == [1..n -> Alphabet]

\* texts that start with "{" and end with "}"
RawObjects ==
    {t \in UNION {TextsOfLen(n) : n \in 2..MaxObjLen} :
        t[1] = "{" /\ t[Len(t)] = "}"}

RECURSIVE Join(_, _)
\* the objects written one after the other, sep between consecutive ones
Join(os, sep) ==
    IF Len(os) = 0 THEN <<>>
    ELSE IF Len(os) = 1 THEN os[1]
    ELSE os[1] \o sep \o Join(Tail(os), sep)

Blobs == UNION {[1..n -> RawObjects] : n \in 1..MaxObjs}

Idle ==
    /\ visited = {}
    /\ file_name = <<>>
    /\ chunks = <<>>
    /\ pos = 0
    /\ update = <<>>
    /\ tree = <<>>
    /\ dc_list = <<>>
    /\ base_dir = <<>>

InitSplit ==
    /\ Idle
    /\ status = "running"
    /\ last = "none"
    /\ objs \in Blobs
    /\ s \in {Join(objs, <<NL>>), Join(objs, <<>>)}
    /\ out = <<>>

\* the chunk loop over the whole of s
SplitBlob ==
    /\ status = "running"
    /\ out' = Reconstructed(s)
    /\ chunks' = Chunks(s)
    /\ pos' = Len(Chunks(s))
    /\ update' = out'[Len(out')]
    /\ status' = "ok"
    /\ last' = "split"
    /\ UNCHANGED <<visited, file_name, s, tree, dc_list, base_dir, objs>>

NextSplit == SplitBlob

SpecSplit == InitSplit /\ [][NextSplit]_vars

----------------------------------------------------------------------------
(* The record model and serde_json *)

\* Option<T>: None, Some(v)
None == <<>>
Some(v) == <<v>>

\* JSON members of an object text, one token each.  "nA" is "name":"A",
\* "sY" is "schema":"Y", "d1" is "description":"1"; "u" is a member no field
\* of DeclarativeConfig models; "vNum", "vStr", "vNull" and "vObj" are a
\* "properties" member whose "value": is 3.14, "3.14", null and {...}
\* (the field properties is commented out, so they are unknown members too)
NameVal == [nA |-> <<"A">>, nB |-> <<"B">>]
SchemaVal == [sY |-> <<"Y">>, sZ |-> <<"Z">>]
DescVal == [d1 |-> <<"1">>]
NameTok == DOMAIN NameVal
SchemaTok == DOMAIN SchemaVal
DescTok == DOMAIN DescVal
UnknownTok == {"u", "vNum", "vStr", "vNull", "vObj"}
MemberTok == NameTok \cup SchemaTok \cup DescTok \cup UnknownTok

\* the text without JSON whitespace
RECURSIVE StripWs(_)
StripWs(t) ==
    IF Len(t) = 0 THEN <<>>
    ELSE IF Head(t) = NL THEN StripWs(Tail(t))
    ELSE <<Head(t)>> \o StripWs(Tail(t))

\* the members of kind toks among the tokens of t, in order
Members(t, toks) == SelectSeq(t, LAMBDA x : x \in toks)

FieldOf(t, toks, val) ==
    LET m == Members(t, toks)
    IN IF Len(m) = 0 THEN None ELSE Some(val[m[1]])

\* serde_json::from_str::<DeclarativeConfig>: one object, its members known
\* or ignored, no field twice, nothing after the closing brace
Decode(t) ==
    LET w == StripWs(t)
        inner == SubSeq(w, 2, Len(w) - 1)
    IN IF /\ Len(w) >= 2
          /\ w[1] = "{"
          /\ w[Len(w)] = "}"
          /\ \A i \in 1..Len(inner) : inner[i] \in MemberTok
          /\ Len(Members(inner, NameTok)) <= 1
          /\ Len(Members(inner, SchemaTok)) <= 1
          /\ Len(Members(inner, DescTok)) <= 1
       THEN [ok |-> TRUE,
             dc |-> [schema |-> FieldOf(inner, SchemaTok, SchemaVal),
                     name |-> FieldOf(inner, NameTok, NameVal),
                     description |-> FieldOf(inner, DescTok, DescVal)]]
       ELSE [ok |-> FALSE, dc |-> <<>>]

\* serde_json::to_string(&dc): every field of the struct in declaration
\* order, null for None (the fields that are always None here are left out)
Serialize(dc) ==
    <<"{", "schema:">> \o (IF dc.schema = None THEN <<"null">> ELSE dc.schema[1])
    \o <<"name:">> \o (IF dc.name = None THEN <<"null">> ELSE dc.name[1])
    \o <<"description:">>
    \o (IF dc.description = None THEN <<"null">> ELSE dc.description[1])
    \o <<"}">>

----------------------------------------------------------------------------
(* Paths and the file system *)

ConfigsSep == <<"/", "configs", "/">>      \* "/configs/"
CatalogLit == <<"catalog.json">>           \* "catalog.json"
DirMark == <<"<dir>">>                     \* what tree holds for a directory

CatalogPath == <<"b", "/", "configs", "/", "p", "/", "catalog.json">>
MyCatalogPath == <<"b", "/", "configs", "/", "p", "/", "my", "catalog.json">>
OtherPath == <<"b", "/", "configs", "/", "p", "/", "other.json">>
ReadmePath == <<"b", "/", "readme">>
PkgDirPath == <<"b", "/", "configs", "/", "p">>

\* the walk's entries that are regular files, and those that are not
FilePaths == {CatalogPath, MyCatalogPath, OtherPath, ReadmePath}
DirPaths == {PkgDirPath}

RECURSIVE Norm(_)
\* path resolution: a run of "/" is one "/"
Norm(p) ==
    IF Len(p) <= 1 THEN p
    ELSE IF p[1] = "/" /\ p[2] = "/" THEN Norm(Tail(p))
    ELSE <<p[1]>> \o Norm(Tail(p))

\* the directories on the way to p, p excluded
Ancestors(p) == {SubSeq(p, 1, i - 1) : i \in {j \in 2..Len(p) : p[j] = "/"}}

\* fs::create_dir_all(d): d and every missing directory on the way to it
\* (the directories leading to the file being read exist already)
CreateDirAll(t, d, existing) ==
    LET new == ((Ancestors(Norm(d)) \cup {Norm(d)}) \ existing) \ DOMAIN t
    IN [p \in new |-> DirMark] @@ t

\* a write that leaves an existing file as it is
FsWriteKeepFirst(t, p, contents) ==
    IF Norm(p) \in DOMAIN t THEN t ELSE (Norm(p) :> contents) @@ t

\* fs::write(p, contents): creates the file or replaces its contents
FsWrite(t, p, contents) == (Norm(p) :> contents) @@ t

----------------------------------------------------------------------------
(* build_updated_configs *)

\* the object texts catalog files are made of
Objects ==
    { <<"{", "sY", "nA", "}">>,
      <<"{", "sZ", "nA", "d1", "}">>,
      <<"{", "sY", "nB", "u", "vNum", "vStr", "vNull", "vObj", "}">>,
      <<"{", "sY", "}">>,
      <<"{", "nA", "x", "}">> }

\* a file without any "{"
YamlText == <<"nA", NL, "sY">>

\* one to MaxChunks objects, a newline or nothing between consecutive ones
CatalogTexts ==
    UNION {{Join(os, <<NL>>), Join(os, <<>>)} :
           os \in UNION {[1..n -> Objects] : n \in 1..MaxChunks}}

\* what a file of the walk may hold
Contents == CatalogTexts \cup {YamlText}

\* line 194: s.contains("{")
BraceTexts == {c \in Contents : Contains(c, <<"{">>)}
NoBraceTexts == Contents \ BraceTexts

\* line 186: file_name.split("/configs/").nth(1) is Some
HasComponent(f) == Len(Split(f, ConfigsSep)) >= 2

\* line 220: file_name.split("catalog.json").nth(0).unwrap()
Dir(f) == Split(f, CatalogLit)[1]

\* line 231: dir + "/updated-configs/" + name + ".json"
UpdateDir(f, name) ==
    Dir(f) \o <<"/", "updated-configs", "/">> \o name \o <<".json">>

\* line 233: dir + "/updated-configs"
UpdatedConfigs(f) == Dir(f) \o <<"/", "updated-configs">>

\* no entry is being processed: the walk yields its next entry or ends
BetweenFiles == status = "running" /\ file_name = <<>>

Init ==
    /\ status = "running"
    /\ last = "none"
    /\ visited = {}
    /\ file_name = <<>>
    /\ s = <<>>
    /\ chunks = <<>>
    /\ pos = 0
    /\ update = <<>>
    /\ tree = <<>>
    /\ dc_list = <<>>
    /\ base_dir = <<>>
    /\ objs = <<>>
    /\ out = <<>>

Frame == UNCHANGED <<dc_list, base_dir, objs, out>>

\* a loop iteration starts on entry p: the locals of the previous one are gone
Entry(p, name, text, pieces) ==
    /\ visited' = visited \cup {p}
    /\ file_name' = name
    /\ s' = text
    /\ chunks' = pieces
    /\ pos' = 0
    /\ update' = <<>>

\* line 177: an entry that is not a regular file
SkipDir(p) ==
    /\ BetweenFiles
    /\ p \notin visited
    /\ Entry(p, <<>>, <<>>, <<>>)
    /\ last' = "skip_dir"
    /\ UNCHANGED <<status, tree>>
    /\ Frame

\* lines 181-184: File::open fails
OpenFails(p) ==
    /\ BetweenFiles
    /\ p \notin visited
    /\ Entry(p, p, <<>>, <<>>)
    /\ status' = "panic"
    /\ last' = "open_failed"
    /\ UNCHANGED tree
    /\ Frame

\* line 186: file_name has no "/configs/", nth(1) is None and unwrap panics
NoComponent(p) ==
    /\ BetweenFiles
    /\ p \notin visited
    /\ ~HasComponent(p)
    /\ Entry(p, p, <<>>, <<>>)
    /\ status' = "panic"
    /\ last' = "no_component"
    /\ UNCHANGED tree
    /\ Frame

\* line 191: read_to_string fails and ? returns the error
ReadFails(p) ==
    /\ BetweenFiles
    /\ p \notin visited
    /\ HasComponent(p)
    /\ Entry(p, p, <<>>, <<>>)
    /\ status' = "err"
    /\ last' = "read_failed"
    /\ UNCHANGED tree
    /\ Frame

\* lines 177-194: the file is read and holds no "{"
SkipNoBrace(p) ==
    /\ BetweenFiles
    /\ p \notin visited
    /\ HasComponent(p)
    /\ \E c \in NoBraceTexts : Entry(p, p, c, <<>>)
    /\ last' = "skip_no_brace"
    /\ UNCHANGED <<status, tree>>
    /\ Frame

\* lines 177-197: the file holds "{" and its file_name has no "catalog.json"
SkipNotCatalog(p) ==
    /\ BetweenFiles
    /\ p \notin visited
    /\ HasComponent(p)
    /\ ~Contains(p, CatalogLit)
    /\ \E c \in BraceTexts : Entry(p, p, c, <<>>)
    /\ last' = "skip_not_catalog"
    /\ UNCHANGED <<status, tree>>
    /\ Frame

\* lines 177-204: the file holds "{" and its file_name contains
\* "catalog.json": it is split and the chunk loop starts
StartCatalog(p) ==
    /\ BetweenFiles
    /\ p \notin visited
    /\ HasComponent(p)
    /\ Contains(p, CatalogLit)
    /\ \E c \in BraceTexts : Entry(p, p, c, Chunks(c))
    /\ last' = "split"
    /\ UNCHANGED <<status, tree>>
    /\ Frame

InLoop == status = "running" /\ pos < Len(chunks)

\* lines 208-218 for the chunk at pos
NextUpdate == Reconstruct(pos, chunks[pos + 1], Len(chunks), update)

\* lines 223, 238-240: the chunk does not decode
ChunkParseError ==
    /\ InLoop
    /\ ~Decode(NextUpdate).ok
    /\ update' = NextUpdate
    /\ pos' = pos + 1
    /\ last' = "could_not_parse"
    /\ UNCHANGED <<status, visited, file_name, s, chunks, tree>>
    /\ Frame

\* line 226: the chunk decodes, name is None and unwrap panics
ChunkNoName ==
    /\ InLoop
    /\ Decode(NextUpdate).ok
    /\ Decode(NextUpdate).dc.name = None
    /\ update' = NextUpdate
    /\ status' = "panic"
    /\ last' = "no_name"
    /\ UNCHANGED <<visited, file_name, s, chunks, pos, tree>>
    /\ Frame

\* lines 233-234: create_dir_all fails and expect panics
ChunkMkdirFails ==
    /\ InLoop
    /\ Decode(NextUpdate).ok
    /\ Decode(NextUpdate).dc.name # None
    /\ update' = NextUpdate
    /\ status' = "panic"
    /\ last' = "mkdir_failed"
    /\ UNCHANGED <<visited, file_name, s, chunks, pos, tree>>
    /\ Frame

\* lines 233-236: the directory is there, fs::write fails and expect panics
ChunkWriteFails ==
    /\ InLoop
    /\ Decode(NextUpdate).ok
    /\ Decode(NextUpdate).dc.name # None
    /\ update' = NextUpdate
    /\ tree' = CreateDirAll(tree, UpdatedConfigs(file_name), Ancestors(file_name))
    /\ status' = "panic"
    /\ last' = "write_failed"
    /\ UNCHANGED <<visited, file_name, s, chunks, pos>>
    /\ Frame

\* lines 223-237: the chunk decodes with a name and its record is written
ChunkWritten ==
    /\ InLoop
    /\ Decode(NextUpdate).ok
    /\ Decode(NextUpdate).dc.name # None
    /\ update' = NextUpdate
    /\ tree' = FsWrite(
            CreateDirAll(tree, UpdatedConfigs(file_name), Ancestors(file_name)),
            UpdateDir(file_name, Decode(NextUpdate).dc.name[1]),
            Serialize(Decode(NextUpdate).dc))
    /\ pos' = pos + 1
    /\ last' = "written"
    /\ UNCHANGED <<status, visited, file_name, s, chunks>>
    /\ Frame

\* lines 242-245: the chunk loop, if any, is over and so is the loop body
\* of the walk: file_name, s, chunks and update go out of scope
EndEntry ==
    /\ status = "running"
    /\ file_name # <<>>
    /\ pos = Len(chunks)
    /\ file_name' = <<>>
    /\ s' = <<>>
    /\ chunks' = <<>>
    /\ pos' = 0
    /\ update' = <<>>
    /\ last' = "end_entry"
    /\ UNCHANGED <<status, visited, tree>>
    /\ Frame

\* line 247: the walk is over
ReturnOk ==
    /\ BetweenFiles
    /\ status' = "ok"
    /\ last' = "return"
    /\ UNCHANGED <<visited, file_name, s, chunks, pos, update, tree>>
    /\ Frame

Next ==
    \/ \E p \in DirPaths : SkipDir(p)
    \/ \E p \in FilePaths : OpenFails(p)
    \/ \E p \in FilePaths : NoComponent(p)
    \/ \E p \in FilePaths : ReadFails(p)
    \/ \E p \in FilePaths : SkipNoBrace(p)
    \/ \E p \in FilePaths : SkipNotCatalog(p)
    \/ \E p \in FilePaths : StartCatalog(p)
    \/ ChunkParseError
    \/ ChunkNoName
    \/ ChunkMkdirFails
    \/ ChunkWriteFails
    \/ ChunkWritten
    \/ EndEntry
    \/ ReturnOk

Spec == Init /\ [][Next]_vars

----------------------------------------------------------------------------
(* read_operator_catalog and get_declarativeconfig_map *)

\* index of the last "/" of p, 0 if none
LastSlash(p) ==
    IF \E i \in 1..Len(p) : p[i] = "/"
    THEN CHOOSE i \in 1..Len(p) :
            p[i] = "/" /\ \A j \in (i + 1)..Len(p) : p[j] # "/"
    ELSE 0

\* Path::file_name: the last component of p
Basename(p) == SubSeq(p, LastSlash(p) + 1, Len(p))

\* serde_yaml::from_str::<DeclarativeConfig>: one mapping, a member per line
DecodeYaml(t) ==
    LET w == StripWs(t)
    IN IF /\ Len(w) >= 1
          /\ \A i \in 1..Len(w) : w[i] \in MemberTok
          /\ Len(Members(w, NameTok)) <= 1
          /\ Len(Members(w, SchemaTok)) <= 1
          /\ Len(Members(w, DescTok)) <= 1
       THEN [ok |-> TRUE,
             dc |-> [schema |-> FieldOf(w, SchemaTok, SchemaVal),
                     name |-> FieldOf(w, NameTok, NameVal),
                     description |-> FieldOf(w, DescTok, DescVal)]]
       ELSE [ok |-> FALSE, dc |-> <<>>]

\* lines 164-168: JSON when the text holds "{", YAML otherwise
DecodeFile(t) == IF Contains(t, <<"{">>) THEN Decode(t) ELSE DecodeYaml(t)

\* line 263: name + "=" + schema
Key(name, schema) == name \o <<"=">> \o schema

\* lines 258-259: base_dir + the entry's file name
IndexFileName(base, entry) == base \o Basename(entry)

FileA == <<"d", "/", "a.json">>
FileB == <<"d", "/", "b.yaml">>
FileSubA == <<"d", "/", "sub", "/", "a.json">>
SubDir == <<"d", "/", "sub">>

\* the regular files below the directory d, and the other entries of the walk
IndexFiles == {FileA, FileB, FileSubA}
IndexDirs == {SubDir}

\* what a file below d may hold
IndexTexts ==
    { <<"{", "sY", "nA", "}">>,
      <<"{", "sY", "nA", "d1", "}">>,
      <<"{", "nA", "}">>,
      <<"{", "sY", "nA", "x", "}">>,
      <<"sY", NL, "nB">>,
      <<"sY", NL, "nA", NL, "u">>,
      <<"x">> }

\* base_dir as the caller writes it: "d/" or "d"
BaseDirs == {<<"d", "/">>, <<"d">>}

InitIndex ==
    /\ status = "running"
    /\ last = "none"
    /\ visited = {}
    /\ file_name = <<>>
    /\ s = <<>>
    /\ chunks = <<>>
    /\ pos = 0
    /\ update = <<>>
    /\ tree \in [IndexFiles -> IndexTexts]
    /\ dc_list = <<>>
    /\ base_dir \in BaseDirs
    /\ objs = <<>>
    /\ out = <<>>

IndexFrame == UNCHANGED <<chunks, pos, update, tree, base_dir, objs>>

\* the walk yields entry e, which it has not yielded before; out is the
\* sequence of the entries yielded so far
Yield(e) ==
    /\ status = "running"
    /\ e \notin visited
    /\ visited' = visited \cup {e}
    /\ out' = Append(out, e)

\* line 257: an entry that is not a regular file
IndexSkipDir(e) ==
    /\ Yield(e)
    /\ last' = "skip_dir"
    /\ UNCHANGED <<status, file_name, s, dc_list>>
    /\ IndexFrame

\* lines 153-156 under line 260: base_dir + file name is no file, open panics
IndexOpenFails(e) ==
    /\ Yield(e)
    /\ IndexFileName(base_dir, e) \notin DOMAIN tree
    /\ file_name' = IndexFileName(base_dir, e)
    /\ s' = <<>>
    /\ status' = "panic"
    /\ last' = "open_failed"
    /\ UNCHANGED dc_list
    /\ IndexFrame

\* line 160 under lines 260, 266: read_to_string fails, read_operator_catalog
\* returns Err and unwrap panics
IndexReadFails(e) ==
    /\ Yield(e)
    /\ IndexFileName(base_dir, e) \in DOMAIN tree
    /\ file_name' = IndexFileName(base_dir, e)
    /\ s' = <<>>
    /\ status' = "panic"
    /\ last' = "read_failed"
    /\ UNCHANGED dc_list
    /\ IndexFrame

\* lines 164-168 under line 260: the text does not decode and unwrap panics
IndexDecodeFails(e) ==
    /\ Yield(e)
    /\ IndexFileName(base_dir, e) \in DOMAIN tree
    /\ ~DecodeFile(tree[IndexFileName(base_dir, e)]).ok
    /\ file_name' = IndexFileName(base_dir, e)
    /\ s' = tree[IndexFileName(base_dir, e)]
    /\ status' = "panic"
    /\ last' = "decode_failed"
    /\ UNCHANGED dc_list
    /\ IndexFrame

\* line 263: the record has no name or no schema and unwrap panics
IndexMissingField(e) ==
    /\ Yield(e)
    /\ IndexFileName(base_dir, e) \in DOMAIN tree
    /\ DecodeFile(tree[IndexFileName(base_dir, e)]).ok
    /\ \/ DecodeFile(tree[IndexFileName(base_dir, e)]).dc.name = None
       \/ DecodeFile(tree[IndexFileName(base_dir, e)]).dc.schema = None
    /\ file_name' = IndexFileName(base_dir, e)
    /\ s' = tree[IndexFileName(base_dir, e)]
    /\ status' = "panic"
    /\ last' = "missing_field"
    /\ UNCHANGED dc_list
    /\ IndexFrame

\* HashMap::insert
Insert(m, k, v) == (k :> v) @@ m

\* lines 257-267: the file is read and decoded (twice) and the map gets its
\* record under name=schema
IndexInsert(e) ==
    /\ Yield(e)
    /\ IndexFileName(base_dir, e) \in DOMAIN tree
    /\ DecodeFile(tree[IndexFileName(base_dir, e)]).ok
    /\ DecodeFile(tree[IndexFileName(base_dir, e)]).dc.name # None
    /\ DecodeFile(tree[IndexFileName(base_dir, e)]).dc.schema # None
    /\ file_name' = IndexFileName(base_dir, e)
    /\ s' = tree[IndexFileName(base_dir, e)]
    /\ dc_list' =
        LET res == DecodeFile(tree[IndexFileName(base_dir, e)]).dc
        IN Insert(dc_list, Key(res.name[1], res.schema[1]), res)
    /\ last' = "inserted"
    /\ UNCHANGED status
    /\ IndexFrame

\* line 270: the walk is over and the map is returned
IndexReturn ==
    /\ status = "running"
    /\ status' = "ok"
    /\ last' = "return"
    /\ UNCHANGED <<visited, out, file_name, s, dc_list>>
    /\ IndexFrame

NextIndex ==
    \/ \E e \in IndexDirs : IndexSkipDir(e)
    \/ \E e \in IndexFiles : IndexOpenFails(e)
    \/ \E e \in IndexFiles : IndexReadFails(e)
    \/ \E e \in IndexFiles : IndexDecodeFails(e)
    \/ \E e \in IndexFiles : IndexMissingField(e)
    \/ \E e \in IndexFiles : IndexInsert(e)
    \/ IndexReturn

SpecIndex == InitIndex /\ [][NextIndex]_vars

----------------------------------------------------------------------------
\* C2: N >= 2 objects (each "{"..."}", none containing "}\n{") joined by a
\* newline, so that "}\n{" separates consecutive objects, reconstruct to
\* exactly the N object texts, in order.
C2_SplitRebuildsObjects ==
    (/\ status = "ok"
     /\ Len(objs) >= 2
     /\ s = Join(objs, <<NL>>)
     /\ \A i \in 1..Len(objs) : ~Contains(objs[i], Boundary))
    => out = objs

C2_Witness ==
    /\ status = "ok"
    /\ Len(objs) >= 3
    /\ s = Join(objs, <<NL>>)
    /\ out = objs
    /\ out[2] = <<"{">> \o chunks[2] \o <<"}">>

\* C3: a single complete object containing neither "}\n{" nor "}{" yields
\* exactly one text, equal to the input.
C3_SingleObjectUnchanged ==
    (/\ status = "ok"
     /\ Len(objs) = 1
     /\ ~Contains(s, Boundary)
     /\ ~Contains(s, Boundary2))
    => out = <<s>>

----------------------------------------------------------------------------
(* Claims about build_updated_configs, under Spec *)

\* the texts the chunk loop hands to the decoder for the file being processed
FileTexts == Reconstructed(s)

\* the positions of the file's chunks that decode to a record with a name
NamedAt == {i \in 1..Len(FileTexts) :
              Decode(FileTexts[i]).ok /\ Decode(FileTexts[i]).dc.name # None}

\* the directory the file f is in, "/" included
Dirname(f) == SubSeq(f, 1, LastSlash(f))

\* <directory of f>/updated-configs/<n>.json
OutputFile(f, n) == Norm(Dirname(f) \o <<"updated-configs", "/">> \o n \o <<".json">>)

\* the step that ended on an I/O failure
IoFailed == last \in {"open_failed", "read_failed", "mkdir_failed", "write_failed"}

\* C1: when chunks of a catalog file fail to decode, they only produce a
\* diagnostic: once the file's chunk loop has stopped (I/O failures apart),
\* every chunk of the file that decodes with a name has its output file
\* and the operation has not been aborted.
C1_DecodeFailureNeverAborts ==
    (/\ file_name # <<>>
     /\ chunks # <<>>
     /\ ~IoFailed
     /\ ~InLoop
     /\ \E i \in 1..Len(FileTexts) : ~Decode(FileTexts[i]).ok)
    => /\ status = "running"
       /\ \A i \in NamedAt :
            Norm(UpdateDir(file_name, Decode(FileTexts[i]).dc.name[1])) \in DOMAIN tree

\* the part of C1 that is about the decode failure alone: the step that
\* logs "could not parse" leaves the operation running
ParseErrorStepContinues == last = "could_not_parse" => status = "running"

\* C4: a chunk that decodes without a name is a recoverable error: the
\* operation goes on (no abort) after it was handed to the decoder.
C4_MissingNameRecoverable ==
    (/\ file_name # <<>>
     /\ last \notin {"split", "end_entry"}
     /\ Decode(update).ok
     /\ Decode(update).dc.name = None)
    => status = "running"

\* C5: every I/O failure (open, read, create_dir_all, write) ends the
\* operation with an explicit Err, never with a panic and never silently.
C5_IoFailureReturnsErr == IoFailed => status = "err"

\* C6: at the end of the pass over a catalog file, for every name n among
\* the records its chunks decode to, <directory of the file>/updated-configs/
\* <n>.json holds the serialization of the LAST record named n, and the
\* directory holds no other file: same-name records overwrite, no error.
C6_OutputKeyedByNameLastWins ==
    (/\ status = "running"
     /\ file_name # <<>>
     /\ Basename(file_name) = CatalogLit
     /\ chunks # <<>>
     /\ pos = Len(chunks))
    => /\ \A i \in NamedAt :
            LET n == Decode(FileTexts[i]).dc.name[1]
                same == {j \in NamedAt : Decode(FileTexts[j]).dc.name[1] = n}
                lst == CHOOSE j \in same : \A k \in same : k <= j
            IN /\ OutputFile(file_name, n) \in DOMAIN tree
               /\ tree[OutputFile(file_name, n)] = Serialize(Decode(FileTexts[lst]).dc)
       /\ \A n \in {NameVal[k] : k \in NameTok} :
            OutputFile(file_name, n) \in DOMAIN tree
            => \E i \in NamedAt : Decode(FileTexts[i]).dc.name[1] = n

\* a pass over catalog.json whose first and last chunk are named A with
\* different contents, and A.json holds the last one
C6_Witness ==
    /\ status = "running"
    /\ file_name = CatalogPath
    /\ pos = Len(chunks)
    /\ Len(FileTexts) >= 2
    /\ NamedAt = 1..Len(FileTexts)
    /\ Decode(FileTexts[1]).dc.name = Some(<<"A">>)
    /\ Decode(FileTexts[Len(FileTexts)]).dc.name = Some(<<"A">>)
    /\ Decode(FileTexts[1]).dc # Decode(FileTexts[Len(FileTexts)]).dc
    /\ tree[OutputFile(file_name, <<"A">>)] =
         Serialize(Decode(FileTexts[Len(FileTexts)]).dc)

\* C7: a regular file that holds no "{", or whose basename is not
\* catalog.json, is skipped whatever its path: it is not split, nothing is
\* written for it and the walk goes on (I/O failures apart).
C7_OtherFilesSkipped ==
    (/\ file_name # <<>>
     /\ ~IoFailed
     /\ \/ Basename(file_name) # CatalogLit
        \/ (last \in {"skip_no_brace", "skip_not_catalog", "split"}
            /\ ~Contains(s, <<"{">>)))
    => /\ status = "running"
       /\ chunks = <<>>

\* C8: the text handed to the decoder went through the value repair
\* filter: it holds no "value": followed by a number, a quoted number or null.
C8_DecoderSeesRepairedValues ==
    (file_name # <<>> /\ last \in {"could_not_parse", "no_name", "mkdir_failed",
                                   "write_failed", "written"})
    => \A i \in 1..Len(update) : update[i] \notin {"vNum", "vStr", "vNull"}

----------------------------------------------------------------------------
(* Claims about get_declarativeconfig_map, under SpecIndex *)

\* the positions in out of the files visited so far whose own text decodes
\* with a name and a schema
Indexed == {i \in 1..Len(out) :
              /\ out[i] \in IndexFiles
              /\ DecodeFile(tree[out[i]]).ok
              /\ DecodeFile(tree[out[i]]).dc.name # None
              /\ DecodeFile(tree[out[i]]).dc.schema # None}

RecordAt(i) == DecodeFile(tree[out[i]]).dc

KeyAt(i) == Key(RecordAt(i).name[1], RecordAt(i).schema[1])

\* C9: the map holds exactly one entry per (name, schema) pair decoded from
\* the files visited so far, under "<name>=<schema>", and its value is the
\* record of the file visited last among those decoding to that pair.
C9_MapLastWriteWins ==
    status \in {"running", "ok"}
    => /\ DOMAIN dc_list = {KeyAt(i) : i \in Indexed}
       /\ \A i \in Indexed :
            LET same == {j \in Indexed : KeyAt(j) = KeyAt(i)}
                lst == CHOOSE j \in same : \A k \in same : k <= j
            IN dc_list[KeyAt(i)] = RecordAt(lst)

\* C10: a file that does not decode, or decodes without name and schema,
\* is skipped: the pass goes on and the map is as it was.
C10_BadFileSkipped ==
    (/\ s # <<>>
     /\ \/ ~DecodeFile(s).ok
        \/ DecodeFile(s).dc.name = None
        \/ DecodeFile(s).dc.schema = None)
    => status \in {"running", "ok"}

====
